---------------------------- MODULE Spec2Model ----------------------------
(***************************************************************************)
(* A model of the file-management toolkit:                                 *)
(*   main.py                organize_file  (classification, moves, audit)  *)
(*   src/core/file_info.py  FileInfos.get_directory_tree, compare_files,   *)
(*                          get_file_info                                  *)
(*   src/core/file_ops.py   FileOps._resolve_path                          *)
(*   src/core/dir_ops.py    DirOps._resolve_path, move_dir                 *)
(* File names are sequences of one-character strings, so that the suffix   *)
(* of a name and its lower-casing are computed and not looked up.          *)
(***************************************************************************)
EXTENDS Integers, Sequences, FiniteSets, TLC

VARIABLES
    \* ---- classification of one name (main.py 26-46, without the move)
    clsName,      \* the file name being classified
    clsResults,   \* the categories chosen so far for clsName, one per call
    \* ---- organize_file (main.py 5-46)
    top,          \* top-level files of the directory: name -> entry
    catDir,       \* what the directory holds under each category name
    sub,          \* directory/category/name: [category -> [name -> entry]]
    inner,        \* directory/category/name/name, when sub is a directory
    pc,           \* position of the run: idle, loop, done, error
    pending,      \* entries of the iterdir() snapshot not yet processed
    runs,         \* number of runs started
    history,      \* per run, what it did (observation only)
    \* ---- FileInfos.get_directory_tree
    kind,         \* the hierarchy: node (path of child indices) -> kind
    maxDepth,     \* the max_depth argument
    treePc,
    treeResult,
    \* ---- FileInfos.compare_files
    cmpFile,      \* the two arguments: 1..2 -> entry
    cmpPc,
    cmpBlock,     \* number of 8192-byte blocks read so far from each file
    cmpResult,
    \* ---- FileInfos.get_file_info
    links,        \* path -> entry (file, dir, missing, or link to a path)
    infoPath,
    infoPc,
    info,
    \* ---- FileOps._resolve_path and DirOps._resolve_path
    resolver,     \* the class whose _resolve_path is called
    base,         \* FileOps.base_path or DirOps.current_dir
    symlinks,     \* the symbolic links of the filesystem: location -> target
    filepath,     \* the argument of the first call
    resPc,
    resolved,     \* the paths returned so far, each call fed the last one
    \* ---- DirOps.move_dir
    mvSource,     \* what the filesystem holds at the resolved source
    mvDest,       \* what the filesystem holds at the resolved destination
    mvOverwrite,  \* the overwrite argument
    mvBefore,     \* <<mvSource, mvDest>> when move_dir was called (observation only)
    mvPc,
    mvResult

clsVars  == <<clsName, clsResults>>
orgVars  == <<top, catDir, sub, inner, pc, pending, runs, history>>
treeVars == <<kind, maxDepth, treePc, treeResult>>
cmpVars  == <<cmpFile, cmpPc, cmpBlock, cmpResult>>
infoVars == <<links, infoPath, infoPc, info>>
resVars  == <<resolver, base, symlinks, filepath, resPc, resolved>>
mvVars   == <<mvSource, mvDest, mvOverwrite, mvBefore, mvPc, mvResult>>
vars     == <<clsVars, orgVars, treeVars, cmpVars, infoVars, resVars, mvVars>>

\* The parts of the program a specification does not exercise stay idle.
ClsIdle  == clsName = <<>> /\ clsResults = <<>>
OrgIdle  == /\ top = <<>> /\ catDir = <<>> /\ sub = <<>> /\ inner = <<>>
            /\ pc = "unused" /\ pending = {} /\ runs = 0 /\ history = <<>>
TreeIdle == kind = <<>> /\ maxDepth = 0 /\ treePc = "unused" /\ treeResult = <<>>
CmpIdle  == cmpFile = <<>> /\ cmpPc = "unused" /\ cmpBlock = 0 /\ cmpResult = "unused"
InfoIdle == links = <<>> /\ infoPath = 0 /\ infoPc = "unused" /\ info = <<>>
ResIdle  == /\ resolver = "unused" /\ base = <<>> /\ symlinks = <<>>
            /\ filepath = <<>> /\ resPc = "unused" /\ resolved = <<>>
MvIdle   == /\ mvSource = <<>> /\ mvDest = <<>> /\ mvOverwrite = FALSE
            /\ mvBefore = <<>> /\ mvPc = "unused" /\ mvResult = "unused"

-----------------------------------------------------------------------------
(* Names and extensions                                                    *)

\* Longest name drawn for the classifier.
MaxNameLen == 5

\* The characters names are drawn from: enough for ".md" (Documents),
\* ".rar" (Archives), an upper-case letter and an unknown extension.
Chars == {".", "m", "d", "M", "r", "a"}

\* str.lower() on one character.
Lower(ch) ==
    CASE ch = "M" -> "m"
      [] ch = "D" -> "d"
      [] ch = "R" -> "r"
      [] ch = "A" -> "a"
      [] ch = "J" -> "j"
      [] ch = "P" -> "p"
      [] ch = "G" -> "g"
      [] OTHER -> ch

LowerStr(s) == [i \in 1..Len(s) |-> Lower(s[i])]

\* str.rfind('.') counted from 1: the position of the last dot, 0 for none.
RFindDot(name) ==
    LET dots == {i \in 1..Len(name) : name[i] = "."}
    IN  IF dots = {} THEN 0 ELSE CHOOSE i \in dots : \A j \in dots : j <= i

SuffixAnyDot(name) ==
    LET i == RFindDot(name)
    IN  IF i > 0 THEN SubSeq(name, i, Len(name)) ELSE <<>>

\* PurePath.suffix: the text from the last dot, unless that dot is the first
\* or the last character of the name (0 < i < len(name) - 1, counted from 0).
Suffix(name) ==
    LET i == RFindDot(name)
    IN  IF 1 < i /\ i < Len(name) THEN SubSeq(name, i, Len(name)) ELSE <<>>

\* item.suffix.lower()
FileExtension(name) == LowerStr(Suffix(name))

\* The rule table, in the order the dict is written and iterated.
categories == <<
    [name |-> "Images",
     exts |-> { <<".", "j", "p", "g">>, <<".", "j", "p", "e", "g">>,
                <<".", "p", "n", "g">>, <<".", "g", "i", "f">>,
                <<".", "b", "m", "p">> }],
    [name |-> "Documents",
     exts |-> { <<".", "p", "d", "f">>, <<".", "t", "x", "t">>,
                <<".", "m", "d">>, <<".", "d", "o", "c">>,
                <<".", "d", "o", "c", "x">> }],
    [name |-> "Archives",
     exts |-> { <<".", "z", "i", "p">>, <<".", "r", "a", "r">>,
                <<".", "t", "a", "r">> }],
    [name |-> "Videos",
     exts |-> { <<".", "m", "p", "4">> }],
    [name |-> "Others",
     exts |-> {}] >>

CategoryNames == {categories[i].name : i \in 1..Len(categories)}

\* The inner loop of organize_file: the first category, in table order from
\* position i, whose extension list holds ext; 0 when the loop ends unbroken.
RECURSIVE FirstMatch(_, _)
FirstMatch(ext, i) ==
    IF i > Len(categories) THEN 0
    ELSE IF ext \in categories[i].exts THEN i
    ELSE FirstMatch(ext, i + 1)

\* The category organize_file moves a name to, and by which branch:
\* matched (lines 31-39) or the fallback (lines 42-46).
Classify(name) ==
    LET i == FirstMatch(FileExtension(name), 1)
    IN  IF i = 0
        THEN [category |-> "Others", matched |-> FALSE]
        ELSE [category |-> categories[i].name, matched |-> TRUE]

\* All names of at most n characters.
NamesUpTo(n) == UNION {[1..k -> Chars] : k \in 0..n}

\* How often one name is classified again.
MaxCalls == 2

InitClassify ==
    /\ clsName \in NamesUpTo(MaxNameLen)
    /\ clsResults = <<>>
    /\ OrgIdle /\ TreeIdle /\ CmpIdle /\ InfoIdle /\ ResIdle /\ MvIdle

\* One classification of clsName, as organize_file does it for one item.
ClassifyFile ==
    /\ Len(clsResults) < MaxCalls
    /\ clsResults' = Append(clsResults, Classify(clsName).category)
    /\ UNCHANGED <<clsName, orgVars, treeVars, cmpVars, infoVars, resVars, mvVars>>

NextClassify == ClassifyFile

SpecClassify == InitClassify /\ [][NextClassify]_vars

-----------------------------------------------------------------------------
(* Properties of the classification                                        *)

\* The lower-cased text of a name from its last dot on, empty without a dot.
LastDotExtension(name) ==
    LET dots == {i \in 1..Len(name) : name[i] = "."}
        last == CHOOSE i \in dots : \A j \in dots : j <= i
    IN  IF dots = {} THEN <<>>
        ELSE [k \in 1..(Len(name) - last + 1) |-> Lower(name[last + k - 1])]

\* The same, except that a dot that is the first or the last character of
\* the name starts no extension.
InnerDotExtension(name) ==
    LET dots == {i \in 1..Len(name) : name[i] = "."}
        last == CHOOSE i \in dots : \A j \in dots : j <= i
    IN  IF dots = {} \/ last = 1 \/ last = Len(name) THEN <<>>
        ELSE LastDotExtension(name)

\* The category of an extension by the rule table: that of the first rule
\* holding it, Others when none does.
RuleCategory(ext) ==
    LET hits == {i \in 1..Len(categories) : ext \in categories[i].exts}
    IN  IF hits = {} THEN "Others"
        ELSE categories[CHOOSE i \in hits : \A j \in hits : i <= j].name

\* C6 as stated: every classification of a name gives the one category the
\* rule table assigns to the lower-cased text from the name's last dot on.
C6_ClassifyByLastDot ==
    \A k \in 1..Len(clsResults) :
        /\ clsResults[k] \in CategoryNames
        /\ clsResults[k] = RuleCategory(LastDotExtension(clsName))

\* C6 as amended: every classification of a name gives the one category the
\* rule table assigns to its extension, the lower-cased text from the last
\* dot on when that dot is neither the first nor the last character of the
\* name and the empty extension otherwise; classifying again gives the same.
C6_Classification ==
    \A k \in 1..Len(clsResults) :
        /\ clsResults[k] \in CategoryNames
        /\ clsResults[k] = RuleCategory(InnerDotExtension(clsName))
        /\ clsResults[k] = clsResults[1]

\* A name with several dots and an upper-case extension, classified twice
\* by a rule match.
C6_Witness ==
    /\ Cardinality({i \in 1..Len(clsName) : clsName[i] = "."}) >= 2
    /\ clsName[1] # "."
    /\ \E i \in 1..Len(clsName) : clsName[i] = "M"
    /\ clsResults = <<"Documents", "Documents">>


-----------------------------------------------------------------------------
(* organize_file                                                           *)

NameJpg    == <<"a", ".", "j", "p", "g">>
NameXyz    == <<"c", ".", "x", "y", "z">>
NameSub    == <<"s", "u", "b">>
ReportName == <<"r", "e", "p", "o", "r", "t", ".", "t", "x", "t">>

\* The names the top level of the directory may hold besides the categories.
TopNames == {NameJpg, NameXyz, NameSub, ReportName}

\* File content is a sequence of written fragments; nl tells whether the
\* fragment ends with a line terminator.
Fragment(marker, name, category, nl) ==
    [marker |-> marker, name |-> name, cat |-> category, nl |-> nl]

\* Content of an ordinary file, told apart by its tag.
Blob(tag) == <<Fragment(tag, <<>>, "", TRUE)>>

NoEntry    == [kind |-> "none", data |-> <<>>]
FileOf(d)  == [kind |-> "file", data |-> d]
DirEntry   == [kind |-> "dir", data |-> <<>>]

\* f.write(f"-------{filename} to {category}\n")      (line 36)
MatchedLine(name, category) == Fragment("-------", name, category, TRUE)

\* f.write(f"Moved {filename} to Others")             (line 46)
FallbackLine(name) == Fragment("Moved ", name, "Others", FALSE)

\* with open(output_file, "a") as f: f.write(text)
AppendReport(t, text) ==
    [t EXCEPT ![ReportName] =
        IF t[ReportName].kind = "file"
        THEN FileOf(Append(t[ReportName].data, text))
        ELSE FileOf(<<text>>)]

\* The first category, in table order, whose name is taken by a regular
\* file, so that cat_dir.mkdir(exist_ok=True) raises FileExistsError; 0 if none.
RECURSIVE FirstBlockedMkdir(_, _)
FirstBlockedMkdir(cd, i) ==
    IF i > Len(categories) THEN 0
    ELSE IF cd[categories[i].name] = "file" THEN i
    ELSE FirstBlockedMkdir(cd, i + 1)

\* The loop of lines 20-22: every category before the blocked one (all of
\* them when none is blocked) is a directory afterwards.
MkdirAll(cd) ==
    LET b == FirstBlockedMkdir(cd, 1)
    IN  [c \in CategoryNames |->
            IF \E i \in 1..Len(categories) :
                   /\ categories[i].name = c
                   /\ (b = 0 \/ i < b)
                   /\ cd[c] = "none"
            THEN "dir" ELSE cd[c]]

\* shutil.move(src, dst) raises shutil.Error when dst is a directory that
\* already holds an entry called like the source.
MoveFails(c, n) == sub[c][n].kind = "dir" /\ inner[c][n].kind # "none"

\* Number of runs of organize_file.
MaxRuns == 2

FreshDirs == [c \in CategoryNames |-> "none"]
AllDirs   == [c \in CategoryNames |-> "dir"]
EmptySub  == [c \in CategoryNames |-> [n \in TopNames |-> NoEntry]]

\* The directory before the first run: some of the files, possibly a
\* subdirectory, and no report.txt yet (the runs write it). It was never
\* organized (no category directory), or it holds category directories with
\* earlier entries under the same names, or a category name is taken by a
\* regular file.
InitOrganize ==
    /\ top \in [TopNames -> {NoEntry, FileOf(Blob("new")), DirEntry}]
    /\ top[NameJpg].kind # "dir" /\ top[NameXyz].kind # "dir"
    /\ top[ReportName] = NoEntry
    /\ top[NameSub].kind # "file"
    /\ catDir \in {FreshDirs, AllDirs, [FreshDirs EXCEPT !["Videos"] = "file"]}
    /\ \E ej \in {NoEntry, FileOf(Blob("old")), DirEntry},
          ex \in {NoEntry, FileOf(Blob("old"))},
          ei \in {NoEntry, FileOf(Blob("old"))} :
          /\ catDir # AllDirs => ej = NoEntry /\ ex = NoEntry
          /\ ej.kind # "dir" => ei = NoEntry
          /\ sub = [EmptySub EXCEPT !["Images"][NameJpg] = ej,
                                    !["Others"][NameXyz] = ex]
          /\ inner = [EmptySub EXCEPT !["Images"][NameJpg] = ei]
    /\ pc = "idle"
    /\ pending = {}
    /\ runs = 0
    /\ history = <<>>
    /\ ClsIdle /\ TreeIdle /\ CmpIdle /\ InfoIdle /\ ResIdle /\ MvIdle

\* What a run has done so far (observation only).
RunRecord(outcome) ==
    [start   |-> [top |-> top, catDir |-> catDir, sub |-> sub, inner |-> inner],
     moved   |-> <<>>,
     failed  |-> <<>>,
     outcome |-> outcome]

Note(field, value) == [history EXCEPT ![Len(history)][field] = value]

\* Lines 6-24 when every mkdir succeeds: the category directories exist and
\* root.iterdir() lists the top level. The category directories are listed
\* too and item.is_file() is false for each of them; they are left out of
\* pending, the other entries are tested one by one.
StartRun ==
    /\ pc \in {"idle", "done"}
    /\ runs < MaxRuns
    /\ FirstBlockedMkdir(catDir, 1) = 0
    /\ catDir' = MkdirAll(catDir)
    /\ pending' = {n \in TopNames : top[n].kind # "none"}
    /\ pc' = "loop"
    /\ runs' = runs + 1
    /\ history' = Append(history, RunRecord("running"))
    /\ UNCHANGED <<top, sub, inner, clsVars, treeVars, cmpVars, infoVars, resVars, mvVars>>

\* Lines 20-22 when a category name is taken by a regular file: mkdir raises
\* FileExistsError and the run ends before anything is listed.
StartRunMkdirFails ==
    /\ pc \in {"idle", "done"}
    /\ runs < MaxRuns
    /\ FirstBlockedMkdir(catDir, 1) # 0
    /\ catDir' = MkdirAll(catDir)
    /\ pc' = "error"
    /\ runs' = runs + 1
    /\ history' = Append(history, RunRecord("error"))
    /\ UNCHANGED <<top, sub, inner, pending, clsVars, treeVars, cmpVars, infoVars, resVars, mvVars>>

\* Line 25: an entry that is no regular file is passed over.
SkipItem ==
    /\ pc = "loop"
    /\ \E n \in pending :
          /\ top[n].kind # "file"
          /\ pending' = pending \ {n}
    /\ UNCHANGED <<top, catDir, sub, inner, pc, runs, history,
                   clsVars, treeVars, cmpVars, infoVars, resVars, mvVars>>

\* Lines 26-46 for one regular file whose move succeeds: the file is renamed
\* to directory/category/name (replacing a file of that name, or into a
\* directory of that name), then one fragment is appended to report.txt.
MoveItem ==
    /\ pc = "loop"
    /\ \E n \in pending :
          LET cl   == Classify(n)
              c    == cl.category
              line == IF cl.matched THEN MatchedLine(n, c) ELSE FallbackLine(n)
              gone == [top EXCEPT ![n] = NoEntry]
          IN  /\ top[n].kind = "file"
              /\ ~MoveFails(c, n)
              /\ IF sub[c][n].kind = "dir"
                 THEN /\ inner' = [inner EXCEPT ![c][n] = top[n]]
                      /\ sub' = sub
                 ELSE /\ sub' = [sub EXCEPT ![c][n] = top[n]]
                      /\ inner' = inner
              /\ top' = AppendReport(gone, line)
              /\ pending' = pending \ {n}
              /\ history' = Note("moved",
                     Append(history[Len(history)].moved, [name |-> n, cat |-> c]))
    /\ UNCHANGED <<catDir, pc, runs, clsVars, treeVars, cmpVars, infoVars, resVars, mvVars>>

\* Lines 34 and 44 when shutil.move raises: nothing catches the exception,
\* so organize_file ends there and the rest of pending is never processed.
MoveItemFails ==
    /\ pc = "loop"
    /\ \E n \in pending :
          /\ top[n].kind = "file"
          /\ MoveFails(Classify(n).category, n)
          /\ history' = [Note("failed", n) EXCEPT ![Len(history)].outcome = "error"]
    /\ pc' = "error"
    /\ UNCHANGED <<top, catDir, sub, inner, pending, runs,
                   clsVars, treeVars, cmpVars, infoVars, resVars, mvVars>>

\* The loop of line 24 is exhausted and organize_file returns.
FinishRun ==
    /\ pc = "loop"
    /\ pending = {}
    /\ pc' = "done"
    /\ history' = Note("outcome", "done")
    /\ UNCHANGED <<top, catDir, sub, inner, pending, runs,
                   clsVars, treeVars, cmpVars, infoVars, resVars, mvVars>>

NextOrganize ==
    \/ StartRun
    \/ StartRunMkdirFails
    \/ SkipItem
    \/ MoveItem
    \/ MoveItemFails
    \/ FinishRun

SpecOrganize == InitOrganize /\ [][NextOrganize]_vars

-----------------------------------------------------------------------------
(* Properties of organize_file                                             *)

\* The run the directory is in, or was in last.
LastRun == history[Len(history)]

RunEnded == history # <<>> /\ pc \in {"done", "error"}

MovedNames(h) == {h.moved[i].name : i \in 1..Len(h.moved)}

FilesAtStart(h) == {n \in TopNames : h.start.top[n].kind = "file"}

ReportData(t) == IF t[ReportName].kind = "file" THEN t[ReportName].data ELSE <<>>

\* The lines of a text: a line ends with each terminated fragment, and what
\* follows the last terminator, if anything, is one more line.
RECURSIVE SplitLines(_, _, _)
SplitLines(data, i, cur) ==
    IF i > Len(data)
    THEN IF cur = <<>> THEN <<>> ELSE <<cur>>
    ELSE IF data[i].nl
         THEN <<Append(cur, data[i])>> \o SplitLines(data, i + 1, <<>>)
         ELSE SplitLines(data, i + 1, Append(cur, data[i]))

\* A line without its terminator: what was written, fragment by fragment.
LineText(line) ==
    [i \in 1..Len(line) |-> <<line[i].marker, line[i].name, line[i].cat>>]

Lines(data) ==
    LET ls == SplitLines(data, 1, <<>>)
    IN  [k \in 1..Len(ls) |-> LineText(ls[k])]

\* C1: a run of organize_file started right after a completed run moves no
\* file, leaves report.txt as it was and raises no error, and no run ever
\* moves report.txt.
C1_RerunSafety ==
    history # <<>> =>
        /\ ReportName \notin MovedNames(LastRun)
        /\ (Len(history) >= 2 /\ history[Len(history) - 1].outcome = "done") =>
              /\ LastRun.moved = <<>>
              /\ LastRun.outcome # "error"
              /\ top[ReportName] = LastRun.start.top[ReportName]

\* C2: when the move of one file fails, every other regular file that was at
\* the top level when the run started has still been moved when the run ends.
C2_FailureIsolation ==
    (RunEnded /\ LastRun.failed # <<>>) =>
        \A n \in FilesAtStart(LastRun) \ {LastRun.failed} :
            n \in MovedNames(LastRun)

\* C3: a file that is in a category subdirectory when a run starts keeps its
\* content throughout the run, and the top-level file of the same name is
\* not recorded as moved.
C3_CollisionKeepsDestination ==
    history # <<>> =>
        \A c \in CategoryNames, n \in TopNames :
            LastRun.start.sub[c][n].kind = "file" =>
                /\ sub[c][n] = LastRun.start.sub[c][n]
                /\ (c = Classify(n).category => n \notin MovedNames(LastRun))

\* C4: after a completed run, every regular file that was at the top level
\* when it started is at directory/category/name and no longer at the top
\* level, and the subdirectories are where they were.
C4_Placement ==
    (history # <<>> /\ pc = "done") =>
        \A n \in TopNames :
            /\ LastRun.start.top[n].kind = "file" =>
                  /\ sub[Classify(n).category][n] = LastRun.start.top[n]
                  /\ top[n].kind = "none"
            /\ LastRun.start.top[n].kind = "dir" => top[n] = LastRun.start.top[n]

\* C5: report.txt only grows, and what a run has added to it so far is one
\* line per move, in the order of the moves, each line
\* <marker><filename> to <category> for that move.
C5_AuditTrail ==
    history # <<>> =>
        LET before == Lines(ReportData(LastRun.start.top))
            now    == Lines(ReportData(top))
            moved  == LastRun.moved
        IN  /\ Len(now) = Len(before) + Len(moved)
            /\ SubSeq(now, 1, Len(before)) = before
            /\ \A i \in 1..Len(moved) :
                  LET line == now[Len(before) + i]
                  IN  /\ Len(line) = 1
                      /\ line[1][1] \in {"-------", "Moved "}
                      /\ line[1][2] = moved[i].name
                      /\ line[1][3] = moved[i].cat

-----------------------------------------------------------------------------
(* FileInfos.get_directory_tree                                            *)

\* Entries a hierarchy holds below its root.
MaxEntries == 3

\* Largest max_depth argument.
MaxDepthArg == 2

\* A node is the path of child indices leading to it from the root <<>>;
\* kind maps the nodes that exist to what they are. iterdir() yields the
\* children of a directory in ascending index order.
ChildIds == {1, 2}

Parent(p) == SubSeq(p, 1, Len(p) - 1)

\* What an entry is, as the walk sees it:
\*   dir          a directory that can be listed and searched
\*   dirNoRead    a directory whose listing is denied: iterdir() raises
\*                PermissionError
\*   dirNoSearch  a directory that can be listed but not searched: stat() of
\*                each of its entries raises PermissionError
\*   linkDenied   a symbolic link into a directory that cannot be searched:
\*                stat() of the link raises PermissionError
DirKinds   == {"dir", "dirNoRead", "dirNoSearch"}
EntryKinds == DirKinds \cup {"file", "linkDenied"}

\* path.is_dir(), path.is_file() and path.stat() follow links and raise the
\* PermissionError of the stat() call (pathlib only swallows ENOENT, ENOTDIR,
\* EBADF and ELOOP).
StatRaises(p) ==
    \/ kind[p] = "linkDenied"
    \/ p # <<>> /\ kind[Parent(p)] = "dirNoSearch"

Exists(p) == p \in DOMAIN kind

IsDir(p) == kind[p] \in DirKinds

RECURSIVE Ascending(_)
Ascending(ids) ==
    IF ids = {} THEN <<>>
    ELSE LET lo == CHOOSE c \in ids : \A e \in ids : c <= e
         IN  <<lo>> \o Ascending(ids \ {lo})

\* for child in path.iterdir(): the entries of p, in iteration order.
Listing(p) ==
    LET ids == Ascending({c \in ChildIds : Exists(Append(p, c))})
    IN  [i \in 1..Len(ids) |-> Append(p, ids[i])]

\* build_tree's "return None".
NoNode == [path |-> <<>>, type |-> "none", children |-> <<>>,
           permission_error |-> FALSE]

TreeNode(p, type, children, flag) ==
    [path |-> p, type |-> type, children |-> children, permission_error |-> flag]

Returned(node) == [raised |-> FALSE, node |-> node]
Raised         == [raised |-> TRUE, node |-> NoNode]

TooDeepOffByOne(depth) == depth > maxDepth + 1

\* if depth > max_depth: return None                       (line 184)
TooDeep(depth) == depth > maxDepth

RECURSIVE BuildTree(_, _), Expand(_, _, _, _)

\* Lines 198-202 for one child, given what build_tree did for it: a
\* PermissionError ends the loop and sets the flag on this node, with the
\* children appended so far; None is not appended.
AfterChild(p, depth, i, acc, r) ==
    IF r.raised THEN [children |-> acc, flag |-> TRUE]
    ELSE Expand(p, depth, i + 1,
                IF r.node.type = "none" THEN acc ELSE Append(acc, r.node))

\* Lines 196-202: the children are built and appended one after the other,
\* from the i-th entry of the listing on.
Expand(p, depth, i, acc) ==
    IF i > Len(Listing(p)) THEN [children |-> acc, flag |-> FALSE]
    ELSE AfterChild(p, depth, i, acc, BuildTree(Listing(p)[i], depth + 1))

\* build_tree(path, depth), lines 183-204: what it returns, or that it
\* raises PermissionError (from is_dir/stat/is_file at lines 190-194, which
\* are outside its own try).
BuildTree(p, depth) ==
    IF TooDeep(depth) THEN Returned(NoNode)
    ELSE IF StatRaises(p) THEN Raised
    ELSE IF ~IsDir(p) THEN Returned(TreeNode(p, "file", <<>>, FALSE))
    ELSE IF kind[p] = "dirNoRead"
         THEN Returned(TreeNode(p, "directory", <<>>, TRUE))
    ELSE LET e == Expand(p, depth, 1, <<>>)
         IN  Returned(TreeNode(p, "directory", e.children, e.flag))

\* get_directory_tree(directory, max_depth), lines 178-210: None when the
\* argument is no directory or when build_tree raises.
GetDirectoryTreeResult ==
    IF ~IsDir(<<>>) THEN NoNode
    ELSE LET r == BuildTree(<<>>, 0)
         IN  IF r.raised THEN NoNode ELSE r.node

InitTree ==
    /\ \E rk \in DirKinds \cup {"file"} :
          kind = (<<>> :> rk)
    /\ maxDepth = 0
    /\ treePc = "setup"
    /\ treeResult = NoNode
    /\ ClsIdle /\ OrgIdle /\ CmpIdle /\ InfoIdle /\ ResIdle /\ MvIdle

\* The hierarchy the walk is asked about: an entry is created in a directory.
AddEntry ==
    /\ treePc = "setup"
    /\ Cardinality(DOMAIN kind) < 1 + MaxEntries
    /\ \E d \in DOMAIN kind, c \in ChildIds, k \in EntryKinds :
          /\ kind[d] \in DirKinds
          /\ ~Exists(Append(d, c))
          /\ kind' = (Append(d, c) :> k) @@ kind
    /\ UNCHANGED <<maxDepth, treePc, treeResult, clsVars, orgVars, cmpVars, infoVars, resVars, mvVars>>

\* get_directory_tree(root, md) is called.
CallGetDirectoryTree ==
    /\ treePc = "setup"
    /\ \E md \in 0..MaxDepthArg : maxDepth' = md
    /\ treePc' = "called"
    /\ UNCHANGED <<kind, treeResult, clsVars, orgVars, cmpVars, infoVars, resVars, mvVars>>

\* The call walks the hierarchy and returns.
GetDirectoryTree ==
    /\ treePc = "called"
    /\ treeResult' = GetDirectoryTreeResult
    /\ treePc' = "returned"
    /\ UNCHANGED <<kind, maxDepth, clsVars, orgVars, cmpVars, infoVars, resVars, mvVars>>

NextTree == AddEntry \/ CallGetDirectoryTree \/ GetDirectoryTree

SpecTree == InitTree /\ [][NextTree]_vars

-----------------------------------------------------------------------------
(* Properties of get_directory_tree                                        *)

RECURSIVE Height(_)
\* The depth of the deepest node below a node.
Height(node) ==
    IF node.children = <<>> THEN 0
    ELSE LET hs == {Height(node.children[i]) : i \in 1..Len(node.children)}
         IN  1 + CHOOSE h \in hs : \A g \in hs : g <= h

RECURSIVE NodesOf(_)
\* Every node of a tree.
NodesOf(node) ==
    {node} \cup UNION {NodesOf(node.children[i]) : i \in 1..Len(node.children)}

TreeReturned == treePc = "returned" /\ treeResult # NoNode

\* C7: no node of the returned tree is deeper than max_depth (the root is
\* at depth 0), no placeholder stands for an omitted entry, and with
\* max_depth = 0 the root has no children.
C7_DepthBound ==
    TreeReturned =>
        /\ Height(treeResult) <= maxDepth
        /\ \A n \in NodesOf(treeResult) :
              /\ Len(n.path) <= maxDepth
              /\ n.type \in {"directory", "file"}
        /\ maxDepth = 0 => treeResult.children = <<>>

\* A hierarchy with an entry below max_depth, walked down to max_depth.
C7_Witness ==
    /\ TreeReturned
    /\ maxDepth = 1
    /\ Height(treeResult) = 1
    /\ \E p \in DOMAIN kind : Len(p) = 2 /\ kind[Parent(p)] = "dir"

\* C8: in the returned tree a node with the permission-error flag has no
\* children, every directory whose listing is denied is there with the flag
\* and no children, and every readable directory above max_depth has each of
\* its accessible entries as a child, whatever happened to their siblings.
C8_PermissionIsolation ==
    TreeReturned =>
        \A n \in NodesOf(treeResult) :
            /\ n.permission_error => n.children = <<>>
            /\ kind[n.path] = "dirNoRead" => n.permission_error
            /\ (kind[n.path] = "dir" /\ Len(n.path) < maxDepth) =>
                  LET Accessible(q) == kind[q] # "linkDenied"
                  IN  [i \in 1..Len(n.children) |-> n.children[i].path]
                          = SelectSeq(Listing(n.path), Accessible)

-----------------------------------------------------------------------------
(* FileInfos.compare_files                                                 *)

\* f.read(8192)
BlockSize == 8192

\* Whole blocks the largest file spans.
MaxBlocks == 2

\* The content of a regular file is its size and the set of positions
\* (counted from 1) that hold the byte 1; every other byte is 0. Files are
\* opened and read without an I/O error.
Sizes == {k * BlockSize + d : k \in 0..MaxBlocks, d \in {0, 1}}
              \cup {BlockSize - 1}

\* The positions at which files are made to differ: the first byte, both
\* sides of the first block boundary, and the last byte.
Marks(size) == {q \in {1, BlockSize, BlockSize + 1, size} : 1 <= q /\ q <= size}

RegularFiles ==
    UNION {{[kind |-> "file", size |-> n, ones |-> o] : o \in SUBSET Marks(n)} :
           n \in Sizes}

Arguments ==
    RegularFiles \cup {[kind |-> "dir", size |-> 0, ones |-> {}],
                       [kind |-> "missing", size |-> 0, ones |-> {}]}

\* p.is_file()
IsFile(f) == f.kind = "file"

Min(a, b) == IF a < b THEN a ELSE b

\* The k-th read(8192) of a file (k = 0 for the first): the bytes after the
\* k*8192 already read, at most 8192 of them, empty at the end of the file.
Chunk(f, k) ==
    LET from == k * BlockSize
        len  == IF f.size > from THEN Min(BlockSize, f.size - from) ELSE 0
    IN  [len |-> len, ones |-> {q - from : q \in {o \in f.ones : from < o /\ o <= from + len}}]

ChunksDifferInLength(c1, c2) == c1.len # c2.len

\* if chunk1 != chunk2                                      (line 167)
ChunksDiffer(c1, c2) == c1 # c2

\* if not chunk1                                            (line 169)
EndOfFile(c) == c.len = 0

InitCompare ==
    /\ cmpFile \in [1..2 -> Arguments]
    /\ cmpPc = "check"
    /\ cmpBlock = 0
    /\ cmpResult = "pending"
    /\ ClsIdle /\ OrgIdle /\ TreeIdle /\ InfoIdle /\ ResIdle /\ MvIdle

\* Lines 154-155: both arguments must be regular files.
CheckFiles ==
    /\ cmpPc = "check"
    /\ IF IsFile(cmpFile[1]) /\ IsFile(cmpFile[2])
       THEN cmpPc' = "sizes" /\ cmpResult' = cmpResult
       ELSE cmpPc' = "returned" /\ cmpResult' = "error"
    /\ UNCHANGED <<cmpFile, cmpBlock, clsVars, orgVars, treeVars, infoVars, resVars, mvVars>>

\* Lines 158-160: the sizes from stat(), before any file is opened.
CheckSizes ==
    /\ cmpPc = "sizes"
    /\ IF cmpFile[1].size # cmpFile[2].size
       THEN cmpPc' = "returned" /\ cmpResult' = "size-mismatch"
       ELSE cmpPc' = "read" /\ cmpResult' = cmpResult
    /\ UNCHANGED <<cmpFile, cmpBlock, clsVars, orgVars, treeVars, infoVars, resVars, mvVars>>

\* Lines 165-170: one pass of the loop reads a block from each file.
ReadBlocks ==
    /\ cmpPc = "read"
    /\ LET chunk1 == Chunk(cmpFile[1], cmpBlock)
           chunk2 == Chunk(cmpFile[2], cmpBlock)
       IN  IF ChunksDiffer(chunk1, chunk2)
           THEN cmpPc' = "returned" /\ cmpResult' = "content-mismatch"
                /\ cmpBlock' = cmpBlock + 1
           ELSE IF EndOfFile(chunk1)
           THEN cmpPc' = "returned" /\ cmpResult' = "equal"
                /\ cmpBlock' = cmpBlock + 1
           ELSE cmpPc' = "read" /\ cmpResult' = cmpResult
                /\ cmpBlock' = cmpBlock + 1
    /\ UNCHANGED <<cmpFile, clsVars, orgVars, treeVars, infoVars, resVars, mvVars>>

NextCompare == CheckFiles \/ CheckSizes \/ ReadBlocks

SpecCompare == InitCompare /\ [][NextCompare]_vars

-----------------------------------------------------------------------------
(* Properties of compare_files                                             *)

BothRegular == cmpFile[1].kind = "file" /\ cmpFile[2].kind = "file"

\* Byte for byte the same: the same length and the same byte at each position.
SameContent ==
    /\ cmpFile[1].size = cmpFile[2].size
    /\ \A q \in 1..cmpFile[1].size : (q \in cmpFile[1].ones) <=> (q \in cmpFile[2].ones)

-----------------------------------------------------------------------------
(* FileInfos.get_file_info                                                 *)

\* The paths of a small filesystem; links maps each to what is there: nothing,
\* a regular file, a directory, or a symbolic link to one of the paths.
PathIds == {1, 2, 3}

Missing      == [kind |-> "missing", to |-> 0]
PlainFile    == [kind |-> "file", to |-> 0]
Directory    == [kind |-> "dir", to |-> 0]
LinkTo(q)    == [kind |-> "link", to |-> q]

PathEntries == {Missing, PlainFile, Directory} \cup {LinkTo(q) : q \in PathIds}

\* Where following symbolic links from p ends: a path that holds no link, or
\* 0 when the links form a loop (the stat() call fails with ELOOP).
RECURSIVE Follow(_, _)
Follow(p, seen) ==
    IF links[p].kind # "link" THEN p
    ELSE IF links[p].to \in seen THEN 0
    ELSE Follow(links[p].to, seen \cup {p})

Target(p) == Follow(p, {p})

\* path.exists(): stat() follows links; a missing target or a loop is False.
PathExists(p) == Target(p) # 0 /\ links[Target(p)].kind # "missing"

\* path.is_dir() and path.is_file() follow links as well.
PathIsDir(p)  == PathExists(p) /\ links[Target(p)].kind = "dir"
PathIsFile(p) == PathExists(p) /\ links[Target(p)].kind = "file"

\* path.is_symlink() looks at the path itself.
PathIsSymlink(p) == links[p].kind = "link"

\* get_file_info's "return None".
NoInfo == [type |-> "None", symlink |-> FALSE, target |-> 0, is_broken |-> FALSE]

InitInfo ==
    /\ links \in [PathIds -> PathEntries]
    /\ infoPath \in PathIds
    /\ infoPc = "exists"
    /\ info = NoInfo
    /\ ClsIdle /\ OrgIdle /\ TreeIdle /\ CmpIdle /\ ResIdle /\ MvIdle

\* Lines 22-24: a path that does not exist gets no descriptor.
InfoCheckExists ==
    /\ infoPc = "exists"
    /\ infoPc' = IF PathExists(infoPath) THEN "describe" ELSE "returned"
    /\ UNCHANGED <<links, infoPath, info, clsVars, orgVars, treeVars, cmpVars, resVars, mvVars>>

\* Lines 27-59: the descriptor of what the path leads to.
InfoDescribe ==
    /\ infoPc = "describe"
    /\ info' = [type      |-> IF PathIsDir(infoPath) THEN "Directory" ELSE "File",
                symlink   |-> FALSE,
                target    |-> 0,
                is_broken |-> FALSE]
    /\ infoPc' = "symlink"
    /\ UNCHANGED <<links, infoPath, clsVars, orgVars, treeVars, cmpVars, resVars, mvVars>>

\* Lines 62-70: the fields of a symbolic link, then the descriptor is returned.
InfoSymlink ==
    /\ infoPc = "symlink"
    /\ info' = IF PathIsSymlink(infoPath)
               THEN [type      |-> "Symbolic Link",
                     symlink   |-> TRUE,
                     target    |-> Target(infoPath),
                     is_broken |-> ~PathExists(infoPath)]
               ELSE info
    /\ infoPc' = "returned"
    /\ UNCHANGED <<links, infoPath, clsVars, orgVars, treeVars, cmpVars, resVars, mvVars>>

NextInfo == InfoCheckExists \/ InfoDescribe \/ InfoSymlink

SpecInfo == InitInfo /\ [][NextInfo]_vars

-----------------------------------------------------------------------------
(* Properties of get_file_info                                             *)

\* C10: for a path that is a symbolic link, get_file_info returns a
\* descriptor of kind symbolic link with the link target and a broken-link
\* flag, and the flag is true exactly when the target cannot be reached.
C10_SymlinkDescriptor ==
    (infoPc = "returned" /\ links[infoPath].kind = "link") =>
        /\ info # NoInfo
        /\ info.type = "Symbolic Link"
        /\ info.symlink
        /\ info.is_broken <=> ~PathExists(infoPath)

-----------------------------------------------------------------------------
(***************************************************************************)
(* FileOps._resolve_path (file_ops.py 15-17) and DirOps._resolve_path      *)
(* (dir_ops.py 25-29).                                                     *)
(* A path is a record [abs, segs]: whether it starts at the root, and its  *)
(* segments.  pathlib keeps ".." segments and drops "." segments when a    *)
(* Path is built; Path.resolve() is os.path.realpath(strict=False)         *)
(* followed by a stat() that turns a symbolic-link loop into RuntimeError. *)
(* Only symbolic links matter to a non-strict realpath: a location that is *)
(* no link is kept as it is, whether it exists or not.                     *)
(***************************************************************************)
MaxSegs == 3

DirNames == {"a", "b"}
Segments == DirNames \cup {".", ".."}

AbsPath(s) == [abs |-> TRUE, segs |-> s]
RelPath(s) == [abs |-> FALSE, segs |-> s]

\* What a caller may pass: a string, here its separator-split form.
RawPaths ==
    {[abs |-> a, segs |-> s] :
        a \in BOOLEAN, s \in UNION {[1..n -> Segments] : n \in 0..MaxSegs}}

\* Path(filepath): the "." segments are dropped, the ".." segments stay.
PathOf(raw) ==
    [abs |-> raw.abs, segs |-> SelectSeq(raw.segs, LAMBDA x : x # ".")]

\* path.is_absolute()
IsAbsolute(p) == p.abs

\* a / b: an absolute right operand replaces the left one.
JoinPath(a, b) ==
    IF b.abs THEN b ELSE [abs |-> a.abs, segs |-> a.segs \o b.segs]

\* The working directory of the process, a real directory.
Cwd == AbsPath(<<"a">>)

\* The locations that may hold a symbolic link (their parents are real
\* directories) and what a link may point to.
NoLink == RelPath(<<>>)
LinkPaths == {<<"b">>, <<"a", "a">>, <<"a", "b">>}
LinkTargets == {AbsPath(<<"a">>), RelPath(<<"b">>), RelPath(<<"..", "b">>)}

\* The filesystems considered: a link in the root directory does not point
\* above the root.
LinkTables ==
    {f \in [LinkPaths -> LinkTargets \cup {NoLink}] :
        \A l \in LinkPaths :
            Len(l) = 1 => (f[l].segs = <<>> \/ Head(f[l].segs) # "..")}

\* posixpath.normpath: ".." cancels the segment before it; at the root it
\* is dropped, at the front of a relative path it stays.
RECURSIVE NormSegs(_, _, _)
NormSegs(isAbs, done, rest) ==
    IF rest = <<>> THEN done
    ELSE LET comp == Head(rest) IN
         IF comp = "." THEN NormSegs(isAbs, done, Tail(rest))
         ELSE IF \/ comp # ".."
                 \/ (~isAbs /\ done = <<>>)
                 \/ (done # <<>> /\ done[Len(done)] = "..")
              THEN NormSegs(isAbs, Append(done, comp), Tail(rest))
         ELSE IF done # <<>>
              THEN NormSegs(isAbs, SubSeq(done, 1, Len(done) - 1), Tail(rest))
         ELSE NormSegs(isAbs, done, Tail(rest))

Normpath(p) == [abs |-> p.abs, segs |-> NormSegs(p.abs, <<>>, p.segs)]

\* posixpath.abspath: joined onto the working directory, then normpath.
Abspath(p) == Normpath(JoinPath(Cwd, p))

\* os.lstat(newpath) says S_ISLNK.  The prefix of newpath holds no link, so
\* the kernel reaches the location that normpath names.
IsLink(p) ==
    LET loc == Abspath(p).segs IN
    loc \in DOMAIN symlinks /\ symlinks[loc] # NoLink

\* os.readlink(newpath)
Readlink(p) == symlinks[Abspath(p).segs]

\* The ".." step of _joinrealpath: posixpath.split, and a relative path
\* that is empty or ends in ".." grows by one "..".
DotDot(p) ==
    IF p.segs = <<>>
    THEN (IF p.abs THEN p ELSE RelPath(<<"..">>))
    ELSE IF p.segs[Len(p.segs)] = ".."
         THEN [p EXCEPT !.segs = Append(@, "..")]
         ELSE [p EXCEPT !.segs = SubSeq(@, 1, Len(@) - 1)]

\* posixpath._joinrealpath(path, rest, strict=False, seen).  seen maps a
\* link to <<>> while it is being resolved and to <<its resolution>> after.
\* The result is [path, ok, seen]; ok is FALSE when a loop was met, and
\* path is then the loop's link with the unread rest appended.
RECURSIVE JoinRealpath(_, _, _), RealpathLoop(_, _, _)
RealpathLoop(path, rest, seen) ==
    IF rest = <<>> THEN [path |-> path, ok |-> TRUE, seen |-> seen]
    ELSE LET name == Head(rest)
             tail == Tail(rest)
             newpath == [path EXCEPT !.segs = Append(@, name)]
         IN
         IF name = "." THEN RealpathLoop(path, tail, seen)
         ELSE IF name = ".." THEN RealpathLoop(DotDot(path), tail, seen)
         ELSE IF ~IsLink(newpath) THEN RealpathLoop(newpath, tail, seen)
         ELSE IF newpath \in DOMAIN seen
              THEN (IF seen[newpath] # <<>>
                    THEN RealpathLoop(seen[newpath][1], tail, seen)
                    ELSE [path |-> JoinPath(newpath, RelPath(tail)),
                          ok |-> FALSE, seen |-> seen])
         ELSE LET r == JoinRealpath(path, Readlink(newpath),
                                    (newpath :> <<>>) @@ seen)
              IN IF ~r.ok
                 THEN [path |-> JoinPath(r.path, RelPath(tail)),
                       ok |-> FALSE, seen |-> r.seen]
                 ELSE RealpathLoop(r.path, tail,
                                   (newpath :> <<r.path>>) @@ r.seen)

JoinRealpath(path, rest, seen) ==
    RealpathLoop(IF rest.abs THEN AbsPath(<<>>) ELSE path, rest.segs, seen)

\* posixpath.realpath(filename, strict=False)
Realpath(p) == Abspath(JoinRealpath(RelPath(<<>>), p, <<>>).path)

\* The number of links the kernel follows in one lookup before ELOOP.
MaxSymlinkFollows == 40

\* One step of the kernel's walk from the directory cur along rest: over a
\* "." or "..", into a plain entry, or through a link (followed = 1),
\* whose target is then walked before the segments that remain.
KernelStep(cur, rest) ==
    LET name == Head(rest)
        tail == Tail(rest)
        new  == Append(cur, name)
    IN CASE name = "." ->
              [cur |-> cur, rest |-> tail, followed |-> 0]
         [] name = ".." ->
              [cur |-> IF cur = <<>> THEN cur ELSE SubSeq(cur, 1, Len(cur) - 1),
               rest |-> tail, followed |-> 0]
         [] name \notin {".", ".."} /\ new \in DOMAIN symlinks /\ symlinks[new] # NoLink ->
              [cur |-> IF symlinks[new].abs THEN <<>> ELSE cur,
               rest |-> symlinks[new].segs \o tail, followed |-> 1]
         [] OTHER ->
              [cur |-> new, rest |-> tail, followed |-> 0]

\* p.stat() fails with ELOOP: the kernel walks p from the root and gives up
\* at the link that would be one more than it follows.
RECURSIVE KernelWalkLoops(_, _, _)
KernelWalkLoops(cur, rest, follows) ==
    IF rest = <<>> THEN FALSE
    ELSE IF follows + KernelStep(cur, rest).followed > MaxSymlinkFollows THEN TRUE
    ELSE KernelWalkLoops(KernelStep(cur, rest).cur, KernelStep(cur, rest).rest,
                         follows + KernelStep(cur, rest).followed)

StatEloop(p) == KernelWalkLoops(<<>>, Abspath(p).segs, 0)

\* pathlib.Path.resolve(): the realpath, unless stat() on it reports a
\* loop, which raises RuntimeError.
Resolve(p) ==
    LET s == Realpath(p) IN [path |-> s, raised |-> StatEloop(s)]

\* How often the returned path is resolved again, the first call included.
MaxResolves == 2

\* The base_path / current_dir argument of the two constructors; the empty
\* path stands for '' (and for None in FileOps).
BaseArgs == {RelPath(<<>>), RelPath(<<"..">>), AbsPath(<<"a">>), AbsPath(<<"b">>)}

\* The constructor's argument is in base until the constructor has run.
InitResolve ==
    /\ symlinks \in LinkTables
    /\ resolver \in {"FileOps", "DirOps"}
    /\ base \in BaseArgs
    /\ filepath \in RawPaths
    /\ resPc = "new"
    /\ resolved = <<>>
    /\ ClsIdle /\ OrgIdle /\ TreeIdle /\ CmpIdle /\ InfoIdle /\ MvIdle

\* FileOps.__init__ (file_ops.py 9-10): the resolved argument, or the
\* working directory for a missing one; no object when resolve() raises.
FileOpsInit ==
    /\ resolver = "FileOps"
    /\ resPc = "new"
    /\ IF base = RelPath(<<>>)
       THEN base' = Cwd /\ resPc' = "ready"
       ELSE IF Resolve(PathOf(base)).raised
            THEN resPc' = "raised" /\ UNCHANGED base
            ELSE base' = Resolve(PathOf(base)).path /\ resPc' = "ready"
    /\ UNCHANGED <<resolver, symlinks, filepath, resolved,
                   clsVars, orgVars, treeVars, cmpVars, infoVars, mvVars>>

\* DirOps.__init__ (dir_ops.py 11-12): Path(current_dir), never resolved;
\* a Path is always true, so Path.cwd() is never taken.
DirOpsInit ==
    /\ resolver = "DirOps"
    /\ resPc = "new"
    /\ base' = PathOf(base)
    /\ resPc' = "ready"
    /\ UNCHANGED <<resolver, symlinks, filepath, resolved,
                   clsVars, orgVars, treeVars, cmpVars, infoVars, mvVars>>

\* The argument of the next call: the caller's path, then the path the
\* call before returned.
NextArgument ==
    IF resolved = <<>> THEN filepath ELSE resolved[Len(resolved)]

\* FileOps._resolve_path (file_ops.py 15-17)
FileOpsResolvePath ==
    /\ resolver = "FileOps"
    /\ resPc = "ready"
    /\ Len(resolved) < MaxResolves
    /\ LET path == PathOf(NextArgument) IN
       resolved' = Append(resolved,
                          IF IsAbsolute(path) THEN path ELSE JoinPath(base, path))
    /\ UNCHANGED <<resolver, base, symlinks, filepath, resPc,
                   clsVars, orgVars, treeVars, cmpVars, infoVars, mvVars>>

\* DirOps._resolve_path (dir_ops.py 25-29)
DirOpsResolvePath ==
    /\ resolver = "DirOps"
    /\ resPc = "ready"
    /\ Len(resolved) < MaxResolves
    /\ LET path   == PathOf(NextArgument)
           joined == IF ~IsAbsolute(path) THEN JoinPath(base, path) ELSE path
           r      == Resolve(joined)
       IN IF r.raised
          THEN resPc' = "raised" /\ UNCHANGED resolved
          ELSE resolved' = Append(resolved, r.path) /\ UNCHANGED resPc
    /\ UNCHANGED <<resolver, base, symlinks, filepath,
                   clsVars, orgVars, treeVars, cmpVars, infoVars, mvVars>>

NextResolve ==
    \/ FileOpsInit
    \/ DirOpsInit
    \/ FileOpsResolvePath
    \/ DirOpsResolvePath

SpecResolve == InitResolve /\ [][NextResolve]_vars

\* C11: every path _resolve_path returns is absolute, and resolving the
\* returned path again, against the same base, returns an identical path
\* (it neither changes nor fails), for FileOps and for DirOps.
C11_ResolveIdempotent ==
    /\ \A i \in DOMAIN resolved :
          /\ IsAbsolute(resolved[i])
          /\ i > 1 => resolved[i] = resolved[i - 1]
    /\ resolved # <<>> => resPc # "raised"

-----------------------------------------------------------------------------
(***************************************************************************)
(* DirOps.move_dir (dir_ops.py 110-133).                                   *)
(* The resolved source and destination are two different locations,        *)
(* neither inside the other.  What a location holds is nothing, a regular  *)
(* file with its data, or a directory with its entries by name.            *)
(***************************************************************************)
MvNothing == [kind |-> "none"]
MvFile(d) == [kind |-> "file", data |-> d]
MvDir(c)  == [kind |-> "dir", children |-> c]

\* os.path.basename(source)
SourceName == "s"

\* What move_dir may find at the source ...
SourceEntries ==
    {MvNothing, MvFile("S"), MvDir(<<>>), MvDir("f" :> MvFile("S"))}

\* ... and at the destination: a directory there holds an entry "g" or
\* not, and an entry with the name of the source or not.
NamesakeEntries ==
    {MvFile("X"), MvDir(<<>>), MvDir("h" :> MvFile("H"))}

DestDirs ==
    {MvDir(<<>>), MvDir("g" :> MvFile("D"))}
    \cup {MvDir(SourceName :> n) : n \in NamesakeEntries}
    \cup {MvDir(("g" :> MvFile("D")) @@ (SourceName :> n)) : n \in NamesakeEntries}

DestEntries == {MvNothing, MvFile("D")} \cup DestDirs

\* path.exists()
MvExists(e) == e.kind # "none"

\* shutil.rmtree(destination): a directory goes with all it holds; anything
\* else raises NotADirectoryError, an OSError.
Rmtree(e) ==
    IF e.kind = "dir" THEN [entry |-> MvNothing, raised |-> FALSE]
                      ELSE [entry |-> e, raised |-> TRUE]

\* shutil.move(source, destination) for a source that exists.
\*  - the destination is a directory: the source goes INTO it, under its
\*    own name, unless that name is taken (shutil.Error, an OSError);
\*  - the destination is a regular file: os.rename replaces it by a source
\*    file; for a source directory rename fails and so does the copytree
\*    fallback (FileExistsError);
\*  - no destination: os.rename.
ShutilMove(src, dst) ==
    IF dst.kind = "dir"
    THEN (IF SourceName \in DOMAIN dst.children
          THEN [source |-> src, dest |-> dst, raised |-> TRUE]
          ELSE [source |-> MvNothing,
                dest   |-> MvDir((SourceName :> src) @@ dst.children),
                raised |-> FALSE])
    ELSE IF dst.kind = "file" /\ src.kind = "dir"
         THEN [source |-> src, dest |-> dst, raised |-> TRUE]
    ELSE [source |-> MvNothing, dest |-> src, raised |-> FALSE]

InitMove ==
    /\ mvSource \in SourceEntries
    /\ mvDest \in DestEntries
    /\ mvOverwrite \in BOOLEAN
    /\ mvBefore = <<>>
    /\ mvPc = "ready"
    /\ mvResult = "none"
    /\ ClsIdle /\ OrgIdle /\ TreeIdle /\ CmpIdle /\ InfoIdle /\ ResIdle

\* Lines 116-118: no source.
MoveDirSourceMissing ==
    /\ mvPc = "ready"
    /\ ~MvExists(mvSource)
    /\ mvBefore' = <<mvSource, mvDest>>
    /\ mvResult' = "False"
    /\ mvPc' = "done"
    /\ UNCHANGED <<mvSource, mvDest, mvOverwrite,
                   clsVars, orgVars, treeVars, cmpVars, infoVars, resVars>>

\* Lines 120-133 with overwrite: the destination, when there is one, is
\* removed first; an OSError of rmtree or move makes the result False.
MoveDirOverwrite ==
    /\ mvPc = "ready"
    /\ MvExists(mvSource)
    /\ mvOverwrite
    /\ mvBefore' = <<mvSource, mvDest>>
    /\ LET rm == IF MvExists(mvDest) THEN Rmtree(mvDest)
                 ELSE [entry |-> mvDest, raised |-> FALSE]
           mv == ShutilMove(mvSource, rm.entry)
       IN IF rm.raised
          THEN mvResult' = "False" /\ UNCHANGED <<mvSource, mvDest>>
          ELSE /\ mvSource' = mv.source
               /\ mvDest' = mv.dest
               /\ mvResult' = IF mv.raised THEN "False" ELSE "True"
    /\ mvPc' = "done"
    /\ UNCHANGED <<mvOverwrite,
                   clsVars, orgVars, treeVars, cmpVars, infoVars, resVars>>

\* Lines 120-133 without overwrite: an existing destination is logged as
\* an error (line 122), nothing returns there, and line 127 moves all the
\* same.
MoveDirNoOverwrite ==
    /\ mvPc = "ready"
    /\ MvExists(mvSource)
    /\ ~mvOverwrite
    /\ mvBefore' = <<mvSource, mvDest>>
    /\ LET mv == ShutilMove(mvSource, mvDest) IN
       /\ mvSource' = mv.source
       /\ mvDest' = mv.dest
       /\ mvResult' = IF mv.raised THEN "False" ELSE "True"
    /\ mvPc' = "done"
    /\ UNCHANGED <<mvOverwrite,
                   clsVars, orgVars, treeVars, cmpVars, infoVars, resVars>>

NextMove == MoveDirSourceMissing \/ MoveDirOverwrite \/ MoveDirNoOverwrite

SpecMove == InitMove /\ [][NextMove]_vars

\* C12: when the destination exists and overwrite is False, move_dir
\* returns False and the filesystem is as before (the source in place, the
\* destination with its content); a destination that existed is removed or
\* changed only when overwrite is True.
C12_CollisionRefused ==
    (mvPc = "done" /\ MvExists(mvBefore[2])) =>
        /\ ~mvOverwrite =>
              /\ mvResult = "False"
              /\ mvSource = mvBefore[1]
              /\ mvDest = mvBefore[2]
        /\ mvDest # mvBefore[2] => mvOverwrite

=============================================================================
